---- MODULE Spec2Model ----
(***************************************************************************)
(* Canvas editing engine of MathScribe (src/src/screens/home/index.tsx):   *)
(* the raster, the undo/redo history of raster snapshots, the pointer and  *)
(* touch handlers, the asynchronous snapshot decodes and the reset effect. *)
(*                                                                         *)
(* The canvas is a row of CanvasW pixels.  A pixel is "W"                  *)
(* (opaque white background), "K" (opaque ink) or "T" (fully transparent,  *)
(* what clearRect and a destination-out stroke leave behind).              *)
(***************************************************************************)
EXTENDS Integers, Sequences, FiniteSets, TLC

\* ------------------------------------------------------------------ bounds
CanvasW == 2
MaxSaves == 1
MaxPending == 1
MaxRacePending == 2
MaxSeqSaves == 2
MaxHistSaves == 22
MaxTexts == 2
MaxResp == 2

\* ------------------------------------------------------- program constants
MAX_STACK_SIZE == 20

Tool == {"draw", "erase", "text", "rectangle", "square", "circle", "triangle"}
FreehandTools == {"draw", "erase"}
ShapeTools == {"rectangle", "circle", "triangle", "square"}
DrawingTools == {"draw", "erase", "rectangle", "circle", "triangle", "square"}

Point(px, py) == [x |-> px, y |-> py]
\* the canvas is one row of CanvasW pixels
Pix == {Point(px, 0) : px \in 0..(CanvasW - 1)}
\* startPoint === null
NoPoint == Point(-1, -1)

Abs(n) == IF n < 0 THEN -n ELSE n
Min(a, b) == IF a < b THEN a ELSE b
Max(a, b) == IF a < b THEN b ELSE a

VARIABLES
    raster,              \* the canvas pixels
    gco,                 \* ctx.globalCompositeOperation
    path,                \* the current path of the 2d context
    isDrawing,
    startPoint,
    currentTool,
    undoStack,
    redoStack,
    pending,             \* Image objects whose onload has not fired yet, in issue order
    dictOfVars,
    latexExpressions,
    textItems,
    nextTextItemId,
    fontSize,
    selectedTextItemId,
    calls,               \* axios.post calls of runRoute whose promise has not settled yet
    saves,               \* number of saveState() calls so far (bounds the exploration)
    ev,                  \* the History Manager call of the last handler and its outcome, "none" if it made none
    script,              \* observer: operations, then undos, then redos, counted from the mount
    lastOp,              \* observer: the last completed gesture and the undos made since
    undone,              \* observer: raster and stacks as they were before the last undo
    settled,             \* observer: the image and the response of the solver call the last step settled
    geo,                 \* observer: a shape tool with a start and an end point, and the context calls drawShape made for them
    runs                 \* observer: the solver calls made and how they settled, since the last reset

canvasVars == <<raster, gco, path>>
gestureVars == <<isDrawing, startPoint, currentTool>>
historyVars == <<undoStack, redoStack>>
overlayVars == <<dictOfVars, latexExpressions, textItems, nextTextItemId, fontSize, selectedTextItemId,
                 calls>>
progVars == <<raster, gco, path, isDrawing, startPoint, currentTool, undoStack, redoStack,
              pending, dictOfVars, latexExpressions, textItems, nextTextItemId, fontSize,
              selectedTextItemId, calls>>
vars == <<raster, gco, path, isDrawing, startPoint, currentTool, undoStack, redoStack,
          pending, dictOfVars, latexExpressions, textItems, nextTextItemId, fontSize,
          selectedTextItemId, calls, saves, ev, script, lastOp, undone, settled, geo, runs>>
observers == <<script, lastOp, undone, settled, geo, runs>>

\* ------------------------------------------------------ the 2d context
\* ctx.clearRect(0, 0, canvas.width, canvas.height): every pixel transparent,
\* whatever the composite operation
clearRect == [p \in Pix |-> "T"]

\* one pixel of an opaque source composited onto dst under operation op
Composite(dst, src, op) ==
    IF src = "T" THEN dst
    ELSE IF op = "destination-out" THEN "T"
    ELSE src

\* ctx.fillStyle = 'white'; ctx.fillRect(0, 0, canvas.width, canvas.height)
fillRect(r, op) == [p \in Pix |-> Composite(r[p], "W", op)]

\* ctx.drawImage(img, 0, 0, canvas.width, canvas.height)
drawImage(r, img, op) == [p \in Pix |-> Composite(r[p], img[p], op)]

\* ctx.stroke(): the pixels the path covers are inked, or erased under
\* destination-out
stroke(r, pts, op) == [p \in Pix |-> IF p \in pts THEN Composite(r[p], "K", op) ELSE r[p]]

\* the canvas after the mount effect: white fill
Blank == [p \in Pix |-> "W"]

resetCanvas(op) == fillRect(clearRect, op)

\* canvas.toDataURL(): a PNG of the pixels; img.src = url decodes it again
toDataURL(r) == [mime |-> "image/png", data |-> r]
decode(url) == url.data

\* ------------------------------------------------------ paths
\* q lies on the segment from a to b
OnSegment(q, a, b) ==
    /\ (b.x - a.x) * (q.y - a.y) = (b.y - a.y) * (q.x - a.x)
    /\ Min(a.x, b.x) <= q.x /\ q.x <= Max(a.x, b.x)
    /\ Min(a.y, b.y) <= q.y /\ q.y <= Max(a.y, b.y)

Segment(a, b) == {q \in Pix : OnSegment(q, a, b)}

\* ctx.beginPath()
beginPath == [pts |-> {}, cur |-> NoPoint, sub |-> NoPoint]
\* ctx.moveTo(p)
moveTo(pa, p) == [pts |-> pa.pts, cur |-> p, sub |-> p]
\* ctx.lineTo(p): with no current point it is a moveTo
lineTo(pa, p) ==
    IF pa.cur = NoPoint THEN moveTo(pa, p)
    ELSE [pts |-> pa.pts \cup Segment(pa.cur, p), cur |-> p, sub |-> pa.sub]
\* ctx.closePath()
closePath(pa) ==
    IF pa.cur = NoPoint THEN pa
    ELSE [pts |-> pa.pts \cup Segment(pa.cur, pa.sub), cur |-> pa.sub, sub |-> pa.sub]

\* largest n with n * n <= m
ISqrt(m) == CHOOSE n \in 0..m : n * n <= m /\ (n + 1) * (n + 1) > m

\* ctx.rect(x, y, w, h): a closed subpath, then a new subpath at (x, y)
rect(pa, px, py, w, h) ==
    LET a == Point(px, py)
        b == Point(px + w, py)
        c == Point(px + w, py + h)
        d == Point(px, py + h)
    IN [pts |-> pa.pts \cup Segment(a, b) \cup Segment(b, c) \cup Segment(c, d) \cup Segment(d, a),
        cur |-> a, sub |-> a]

\* ctx.arc(cx, cy, radius, 0, 2 * Math.PI) with radius = sqrt(r2)
arc(pa, cx, cy, r2) ==
    LET onCircle == {q \in Pix : (q.x - cx) * (q.x - cx) + (q.y - cy) * (q.y - cy) = r2}
        first == Point(cx + ISqrt(r2), cy)
        lead == IF pa.cur = NoPoint THEN {} ELSE Segment(pa.cur, first)
    IN [pts |-> pa.pts \cup lead \cup onCircle,
        cur |-> first,
        sub |-> IF pa.cur = NoPoint THEN first ELSE pa.sub]

\* the side of the square: Math.min(Math.abs(width), Math.abs(height)), taken
\* as the larger of the two
SquareSize_max(width, height) == Max(Abs(width), Abs(height))
\* const size = Math.min(Math.abs(width), Math.abs(height))
SquareSize(width, height) == Min(Abs(width), Abs(height))

\* the third vertex mirrored around the vertical line through end
ThirdVertex_aroundEnd(start, end) == Point(end.x * 2 - start.x, end.y)
\* the point of the second lineTo of the triangle
ThirdVertex(start, end) == Point(start.x * 2 - end.x, end.y)

\* the calls drawShape makes on the context, in order
ShapeCalls(tool, start, end) ==
    LET width == end.x - start.x
        height == end.y - start.y
    IN CASE tool = "rectangle" ->
                <<[op |-> "rect", x |-> start.x, y |-> start.y, w |-> width, h |-> height]>>
         [] tool = "square" ->
                LET size == SquareSize(width, height)
                IN <<[op |-> "rect", x |-> start.x, y |-> start.y,
                      w |-> IF width < 0 THEN -size ELSE size,
                      h |-> IF height < 0 THEN -size ELSE size]>>
         [] tool = "circle" ->
                <<[op |-> "arc", x |-> start.x, y |-> start.y, r2 |-> width * width + height * height]>>
         [] tool = "triangle" ->
                <<[op |-> "moveTo", x |-> start.x, y |-> start.y],
                  [op |-> "lineTo", x |-> end.x, y |-> end.y],
                  [op |-> "lineTo", x |-> ThirdVertex(start, end).x, y |-> ThirdVertex(start, end).y],
                  [op |-> "closePath"]>>
         [] OTHER -> <<>>

\* one call of ShapeCalls made on the path pa
ContextCall(pa, c) ==
    CASE c.op = "rect" -> rect(pa, c.x, c.y, c.w, c.h)
      [] c.op = "arc" -> arc(pa, c.x, c.y, c.r2)
      [] c.op = "moveTo" -> moveTo(pa, Point(c.x, c.y))
      [] c.op = "lineTo" -> lineTo(pa, Point(c.x, c.y))
      [] c.op = "closePath" -> closePath(pa)

RECURSIVE ContextCalls(_, _)
ContextCalls(pa, cs) == IF cs = <<>> THEN pa ELSE ContextCalls(ContextCall(pa, Head(cs)), Tail(cs))

drawShape(pa, tool, start, end) == ContextCalls(pa, ShapeCalls(tool, start, end))

\* ------------------------------------------------------ initial state
NoOp == [kind |-> "none", pre |-> Blank, undos |-> 0]
NotSettled == [image |-> [mime |-> "image/png", data |-> Blank, texts |-> <<>>], resp |-> [kind |-> "none"]]
NotUndone == [st |-> "none", u |-> <<>>, r |-> <<>>, raster |-> Blank]
NoGeo == [tool |-> "none", start |-> Point(0, 0), end |-> Point(0, 0), stamped |-> <<>>]
NoRuns == [stale |-> <<>>, fresh |-> FALSE, log |-> <<>>, n |-> 0]

\* the state after the mount, but for the observer geo
Mounted ==
    /\ raster = Blank
    /\ gco = "source-over"
    /\ path = beginPath
    /\ isDrawing = FALSE
    /\ startPoint = NoPoint
    /\ currentTool = "draw"
    /\ undoStack = <<>>
    /\ redoStack = <<>>
    /\ pending = <<>>
    /\ dictOfVars = <<>>
    /\ latexExpressions = <<>>
    /\ textItems = <<>>
    /\ nextTextItemId = 1
    /\ fontSize = 16
    /\ selectedTextItemId = 0
    /\ calls = <<>>
    /\ saves = 0
    /\ ev = "none"
    /\ script = [phase |-> "ops", n |-> 0, k |-> 0, j |-> 0, final |-> Blank]
    /\ lastOp = NoOp
    /\ undone = NotUndone
    /\ settled = NotSettled
    /\ runs = NoRuns

Init == Mounted /\ geo = NoGeo

\* ------------------------------------------------------ history
\* saveState without the shift: the stack grows past MAX_STACK_SIZE
saveState_noEvict(stack, r) == Append(stack, toDataURL(r))
\* saveState with pop() for shift(): over capacity the newest snapshot is dropped
saveState_dropNewest(stack, r) ==
    LET newStack == Append(stack, toDataURL(r))
    IN IF Len(newStack) > MAX_STACK_SIZE THEN SubSeq(newStack, 1, Len(newStack) - 1) ELSE newStack

\* saveState: the undoStack updater; the caller also clears redoStack
saveState(stack, r) ==
    LET newStack == Append(stack, toDataURL(r))
    IN IF Len(newStack) > MAX_STACK_SIZE THEN Tail(newStack) ELSE newStack

\* prev.slice(1) for prev.slice(0, prev.length - 1): the oldest snapshot is removed
Front_shift(s) == SubSeq(s, 2, Len(s))
\* prev.slice(0, prev.length - 1)
Front(s) == SubSeq(s, 1, Len(s) - 1)
\* stack[0] for stack[stack.length - 1]
Last_oldest(s) == s[1]
\* stack[stack.length - 1]
Last(s) == s[Len(s)]
RemoveAt(s, i) == SubSeq(s, 1, i - 1) \o SubSeq(s, i + 1, Len(s))

\* const img = new Image(); img.src = lastState; img.onload = ... (undo, redo)
RestoreRequest(url) ==
    [kind |-> "restore", img |-> url, tool |-> "draw", start |-> NoPoint, end |-> NoPoint]
\* the Image of a shape preview; its onload closes over currentTool, startPoint
\* and the pointer position of the move
PreviewRequest(url, tool, start, end) ==
    [kind |-> "preview", img |-> url, tool |-> tool, start |-> start, end |-> end]

\* undo without its first line: with nothing to pop it still pushes the canvas
\* onto redoStack
undo_noGuard ==
    /\ undoStack' = Front(undoStack)
    /\ redoStack' = Append(redoStack, toDataURL(raster))
    /\ IF Len(undoStack) = 0
       THEN pending' = pending /\ ev' = "undo:empty"
       ELSE pending' = Append(pending, RestoreRequest(Last(undoStack))) /\ ev' = "undo"
    /\ UNCHANGED <<canvasVars, gestureVars, overlayVars, saves>>

undo ==
    IF Len(undoStack) = 0
    THEN /\ ev' = "undo:empty"
         /\ UNCHANGED <<progVars, saves>>
    ELSE /\ undoStack' = Front(undoStack)
         /\ redoStack' = Append(redoStack, toDataURL(raster))
         /\ pending' = Append(pending, RestoreRequest(Last(undoStack)))
         /\ ev' = "undo"
         /\ UNCHANGED <<canvasVars, gestureVars, overlayVars, saves>>

\* redo that reads the top of redoStack without popping it
redo_noPop ==
    IF Len(redoStack) = 0
    THEN /\ ev' = "redo:empty"
         /\ UNCHANGED <<progVars, saves>>
    ELSE /\ redoStack' = redoStack
         /\ undoStack' = Append(undoStack, toDataURL(raster))
         /\ pending' = Append(pending, RestoreRequest(Last(redoStack)))
         /\ ev' = "redo"
         /\ UNCHANGED <<canvasVars, gestureVars, overlayVars, saves>>

redo ==
    IF Len(redoStack) = 0
    THEN /\ ev' = "redo:empty"
         /\ UNCHANGED <<progVars, saves>>
    ELSE /\ redoStack' = Front(redoStack)
         /\ undoStack' = Append(undoStack, toDataURL(raster))
         /\ pending' = Append(pending, RestoreRequest(Last(redoStack)))
         /\ ev' = "redo"
         /\ UNCHANGED <<canvasVars, gestureVars, overlayVars, saves>>

\* onload whose restore omits ctx.clearRect: the snapshot is drawn over the
\* current pixels
onload_noClear(i) ==
    /\ i \in 1..Len(pending)
    /\ LET req == pending[i]
       IN IF req.kind = "restore"
          THEN /\ raster' = drawImage(raster, decode(req.img), gco)
               /\ path' = path
          ELSE /\ path' = drawShape(beginPath, req.tool, req.start, req.end)
               /\ raster' = stroke(drawImage(raster, decode(req.img), gco), path'.pts, gco)
    /\ pending' = RemoveAt(pending, i)
    /\ ev' = "none" /\ UNCHANGED <<gco, gestureVars, historyVars, overlayVars, saves>>

\* img.onload of the i-th Image in flight
onload(i) ==
    /\ i \in 1..Len(pending)
    /\ LET req == pending[i]
       IN IF req.kind = "restore"
          THEN /\ raster' = drawImage(clearRect, decode(req.img), gco)
               /\ path' = path
          ELSE /\ path' = drawShape(beginPath, req.tool, req.start, req.end)
               /\ raster' = stroke(drawImage(raster, decode(req.img), gco), path'.pts, gco)
    /\ pending' = RemoveAt(pending, i)
    /\ ev' = "none" /\ UNCHANGED <<gco, gestureVars, historyVars, overlayVars, saves>>

\* ------------------------------------------------------ pointer handlers
\* startDrawing and startDrawingTouch after the position is read
StartAt(p) ==
    IF currentTool \notin DrawingTools
    THEN ev' = "none" /\ UNCHANGED <<progVars, saves>>
    ELSE /\ undoStack' = saveState(undoStack, raster)
         /\ redoStack' = <<>>
         /\ saves' = saves + 1
         /\ ev' = "record"
         /\ IF currentTool \in FreehandTools
            THEN /\ path' = moveTo(beginPath, p)
                 /\ isDrawing' = TRUE
                 /\ startPoint' = startPoint
            ELSE /\ startPoint' = p
                 /\ path' = path
                 /\ isDrawing' = isDrawing
         /\ UNCHANGED <<raster, gco, currentTool, pending, overlayVars>>

\* onMouseDown
startDrawing(p) == StartAt(p)
\* onTouchStart; p is getTouchPos(e)
startDrawingTouch(p) == StartAt(p)

\* draw and drawTouch after the position is read
MoveAt(p) ==
    IF isDrawing
    THEN /\ gco' = IF currentTool = "erase" THEN "destination-out" ELSE "source-over"
         /\ path' = lineTo(path, p)
         /\ raster' = stroke(raster, path'.pts, gco')
         /\ ev' = "none" /\ UNCHANGED <<gestureVars, historyVars, pending, overlayVars, saves>>
    ELSE IF startPoint # NoPoint /\ currentTool \in ShapeTools
    THEN /\ raster' = resetCanvas(gco)
         /\ IF Len(undoStack) > 0
            THEN pending' = Append(pending, PreviewRequest(Last(undoStack), currentTool, startPoint, p))
            ELSE pending' = pending
         /\ ev' = "none" /\ UNCHANGED <<gco, path, gestureVars, historyVars, overlayVars, saves>>
    ELSE ev' = "none" /\ UNCHANGED <<progVars, saves>>

\* onMouseMove
draw(p) == MoveAt(p)
\* onTouchMove; p is getTouchPos(e)
drawTouch(p) == MoveAt(p)

\* the isDrawing branch of stopDrawing and stopDrawingTouch
StopStroke ==
    /\ isDrawing' = FALSE
    /\ path' = closePath(path)
    /\ gco' = "source-over"
    /\ ev' = "none" /\ UNCHANGED <<raster, startPoint, currentTool, historyVars, pending, overlayVars, saves>>

\* drawFinalShape, and the setStartPoint(null) that follows it
CommitShape(end) ==
    /\ path' = closePath(drawShape(beginPath, currentTool, startPoint, end))
    /\ raster' = stroke(raster, drawShape(beginPath, currentTool, startPoint, end).pts, gco)
    /\ startPoint' = NoPoint

\* onMouseUp and onMouseOut
stopDrawing(p) ==
    IF isDrawing
    THEN StopStroke
    ELSE IF startPoint # NoPoint /\ currentTool \in ShapeTools
    THEN /\ undoStack' = saveState(undoStack, raster)
         /\ redoStack' = <<>>
         /\ saves' = saves + 1
         /\ ev' = "record"
         /\ CommitShape(p)
         /\ UNCHANGED <<gco, isDrawing, currentTool, pending, overlayVars>>
    ELSE ev' = "none" /\ UNCHANGED <<progVars, saves>>

\* onTouchEnd and onTouchCancel.  t is touchEvent.touches[0], NoPoint when the
\* list is empty (the last finger was lifted): getTouchPos then reads
\* clientX of undefined and throws after saveState has run.
stopDrawingTouch(t) ==
    IF isDrawing
    THEN StopStroke
    ELSE IF startPoint # NoPoint /\ currentTool \in ShapeTools
    THEN /\ undoStack' = saveState(undoStack, raster)
         /\ redoStack' = <<>>
         /\ saves' = saves + 1
         /\ ev' = "record"
         /\ IF t = NoPoint
            THEN UNCHANGED <<raster, path, startPoint>>
            ELSE CommitShape(t)
         /\ UNCHANGED <<gco, isDrawing, currentTool, pending, overlayVars>>
    ELSE ev' = "none" /\ UNCHANGED <<progVars, saves>>

\* ------------------------------------------------------ toolbar
\* a reset that also restarts the text item ids
resetClick_restartIds ==
    /\ raster' = resetCanvas(gco)
    /\ dictOfVars' = <<>>
    /\ undoStack' = <<>>
    /\ redoStack' = <<>>
    /\ textItems' = <<>>
    /\ latexExpressions' = <<>>
    /\ nextTextItemId' = 1
    /\ ev' = "none" /\ UNCHANGED <<gco, path, gestureVars, pending, fontSize,
                   selectedTextItemId, calls, saves>>

\* Reset button: setReset(true), then the reset effect
resetClick ==
    /\ raster' = resetCanvas(gco)
    /\ dictOfVars' = <<>>
    /\ undoStack' = <<>>
    /\ redoStack' = <<>>
    /\ textItems' = <<>>
    /\ latexExpressions' = <<>>
    /\ ev' = "none" /\ UNCHANGED <<gco, path, gestureVars, pending, nextTextItemId, fontSize,
                   selectedTextItemId, calls, saves>>

\* Eraser button
toggleEraser ==
    /\ currentTool' = IF currentTool = "erase" THEN "draw" ELSE "erase"
    /\ ev' = "none" /\ UNCHANGED <<canvasVars, isDrawing, startPoint, historyVars, pending, overlayVars, saves>>

\* a toolbar with a Square button next to the other shape buttons
ToolButtons_withSquare == {"text", "rectangle", "square", "circle", "triangle"}

\* Text, Rectangle, Circle and Triangle buttons
ToolButtons == {"text", "rectangle", "circle", "triangle"}
\* a tool button that also clears the canvas
setCurrentTool_clear(t) ==
    /\ currentTool' = t
    /\ raster' = resetCanvas(gco)
    /\ ev' = "none" /\ UNCHANGED <<gco, path, isDrawing, startPoint, historyVars, pending, overlayVars, saves>>

setCurrentTool(t) ==
    /\ currentTool' = t
    /\ ev' = "none" /\ UNCHANGED <<canvasVars, isDrawing, startPoint, historyVars, pending, overlayVars, saves>>

\* a click that gives the new item the initial font size instead of the
\* current default
handleCanvasClick_size16(p) ==
    IF currentTool = "text"
    THEN /\ textItems' = Append(textItems, [id |-> nextTextItemId,
                                            position |-> p,
                                            text |-> "Double-click to edit",
                                            fontSize |-> 16])
         /\ nextTextItemId' = nextTextItemId + 1
         /\ ev' = "none"
         /\ UNCHANGED <<canvasVars, gestureVars, historyVars, pending, dictOfVars,
                        latexExpressions, fontSize, selectedTextItemId, calls, saves>>
    ELSE ev' = "none" /\ UNCHANGED <<progVars, saves>>

\* ------------------------------------------------------ text tool
\* onClick of the canvas; p is the click position relative to the canvas
handleCanvasClick(p) ==
    IF currentTool = "text"
    THEN /\ textItems' = Append(textItems, [id |-> nextTextItemId,
                                            position |-> p,
                                            text |-> "Double-click to edit",
                                            fontSize |-> fontSize])
         /\ nextTextItemId' = nextTextItemId + 1
         /\ ev' = "none"
         /\ UNCHANGED <<canvasVars, gestureVars, historyVars, pending, dictOfVars,
                        latexExpressions, fontSize, selectedTextItemId, calls, saves>>
    ELSE ev' = "none" /\ UNCHANGED <<progVars, saves>>

\* onChange of the default font size input, which is rendered while the Text
\* tool is active
setFontSize(n) ==
    /\ currentTool = "text"
    /\ fontSize' = n
    /\ ev' = "none"
    /\ UNCHANGED <<canvasVars, gestureVars, historyVars, pending, dictOfVars, latexExpressions,
                   textItems, nextTextItemId, selectedTextItemId, calls, saves>>

\* onFocus of the editable text of item id
onFocus(id) ==
    /\ \E i \in 1..Len(textItems) : textItems[i].id = id
    /\ selectedTextItemId' = id
    /\ ev' = "none"
    /\ UNCHANGED <<canvasVars, gestureVars, historyVars, pending, dictOfVars, latexExpressions,
                   textItems, nextTextItemId, fontSize, calls, saves>>

\* prevItems.map((prevItem) => prevItem.id === id ? {...prevItem, [field]: value} : prevItem)
MapItems(items, id, field, value) ==
    [i \in 1..Len(items) |-> IF items[i].id = id THEN [items[i] EXCEPT ![field] = value] ELSE items[i]]

\* handleBlur of item id: updateTextItemContent(item.id, newText), then
\* setSelectedTextItemId(null); newText is the text content of the element
handleBlur(id, newText) ==
    /\ \E i \in 1..Len(textItems) : textItems[i].id = id
    /\ textItems' = MapItems(textItems, id, "text", newText)
    /\ selectedTextItemId' = 0
    /\ ev' = "none"
    /\ UNCHANGED <<canvasVars, gestureVars, historyVars, pending, dictOfVars, latexExpressions,
                   nextTextItemId, fontSize, calls, saves>>

\* onStop of the Draggable of item id
updateTextItemPosition(id, p) ==
    /\ \E i \in 1..Len(textItems) : textItems[i].id = id
    /\ textItems' = MapItems(textItems, id, "position", p)
    /\ ev' = "none"
    /\ UNCHANGED <<canvasVars, gestureVars, historyVars, pending, dictOfVars, latexExpressions,
                   nextTextItemId, fontSize, selectedTextItemId, calls, saves>>

\* a font size input of the selected item that resizes every item
setSelectedFontSize_all(n) ==
    /\ selectedTextItemId # 0
    /\ textItems' = [i \in 1..Len(textItems) |-> [textItems[i] EXCEPT !.fontSize = n]]
    /\ ev' = "none"
    /\ UNCHANGED <<canvasVars, gestureVars, historyVars, pending, dictOfVars, latexExpressions,
                   nextTextItemId, fontSize, selectedTextItemId, calls, saves>>

\* onChange of the font size input of the selected item, which is rendered
\* while selectedTextItemId is not null
setSelectedFontSize(n) ==
    /\ selectedTextItemId # 0
    /\ textItems' = MapItems(textItems, selectedTextItemId, "fontSize", n)
    /\ ev' = "none"
    /\ UNCHANGED <<canvasVars, gestureVars, historyVars, pending, dictOfVars, latexExpressions,
                   nextTextItemId, fontSize, selectedTextItemId, calls, saves>>

\* a Delete Text button that removes the first item of the list
deleteText_first ==
    /\ selectedTextItemId # 0
    /\ textItems' = IF textItems = <<>> THEN textItems ELSE Tail(textItems)
    /\ selectedTextItemId' = 0
    /\ ev' = "none"
    /\ UNCHANGED <<canvasVars, gestureVars, historyVars, pending, dictOfVars, latexExpressions,
                   nextTextItemId, fontSize, calls, saves>>

\* Delete Text button, rendered while selectedTextItemId is not null
deleteText ==
    /\ selectedTextItemId # 0
    /\ LET kept(item) == item.id # selectedTextItemId
       IN  textItems' = SelectSeq(textItems, kept)
    /\ selectedTextItemId' = 0
    /\ ev' = "none"
    /\ UNCHANGED <<canvasVars, gestureVars, historyVars, pending, dictOfVars, latexExpressions,
                   nextTextItemId, fontSize, calls, saves>>

\* ------------------------------------------------------ submission
\* the off-screen copy runRoute posts: the canvas pixels and, painted over them
\* by fillText, every text item
Flatten(r, items) ==
    [mime |-> "image/png",
     data |-> r,
     texts |-> [i \in 1..Len(items) |-> [text |-> items[i].text,
                                         position |-> items[i].position,
                                         font |-> items[i].fontSize]]]

\* Run button: runRoute up to the await
runRoute ==
    /\ calls' = Append(calls, [image |-> Flatten(raster, textItems), dict_of_vars |-> dictOfVars])
    /\ ev' = "none"
    /\ UNCHANGED <<canvasVars, gestureVars, historyVars, pending, dictOfVars, latexExpressions,
                   textItems, nextTextItemId, fontSize, selectedTextItemId, saves>>

canvasWidth == Cardinality({p.x : p \in Pix})
canvasHeight == Cardinality({p.y : p \in Pix})
SetMin(S) == CHOOSE m \in S : \A n \in S : m <= n
SetMax(S) == CHOOSE m \in S : \A n \in S : n <= m

\* the scan of getImageData for pixels with alpha > 0.  centerX and centerY are
\* (minX + maxX) / 2 and (minY + maxY) / 2, half-integers when the sum is odd:
\* Center2 is twice the center, and label positions are kept doubled as well.
Center2(r) ==
    LET opaque == {p \in Pix : r[p] # "T"}
        minX == SetMin({canvasWidth} \cup {p.x : p \in opaque})
        minY == SetMin({canvasHeight} \cup {p.y : p \in opaque})
        maxX == SetMax({0} \cup {p.x : p \in opaque})
        maxY == SetMax({0} \cup {p.y : p \in opaque})
    IN  [x |-> minX + maxX, y |-> minY + maxY]

\* a merge that skips the entries with assign false
Merge_assigned(prev, data) ==
    IF data.assign = "false"
    THEN prev
    ELSE [k \in DOMAIN prev \cup {data.expr} |-> IF k = data.expr THEN data.result ELSE prev[k]]

\* setDictOfVars((prev) => ({...prev, [data.expr]: data.result}))
Merge(prev, data) ==
    [k \in DOMAIN prev \cup {data.expr} |-> IF k = data.expr THEN data.result ELSE prev[k]]
RECURSIVE MergeAll(_, _)
MergeAll(prev, list) ==
    IF list = <<>> THEN prev ELSE MergeAll(Merge(prev, Head(list)), Tail(list))

\* the text of a label, the pieces of the template literal
LatexOf(data) == <<"\\(\\LARGE{\\text{", data.expr, "} = \\text{", data.result, "}}\\)">>

\* an absent assign flag read as false
AssignOf_strict(data) == IF data.assign = "absent" THEN "false" ELSE data.assign

\* data.assign ?? true
AssignOf(data) == IF data.assign = "absent" THEN "true" ELSE data.assign

\* a label loop that takes the id of a label from the index of its entry in
\* the response
RECURSIVE PlaceLabels_indexId(_, _, _, _)
PlaceLabels_indexId(prev, list, i, center2) ==
    IF i > Len(list)
    THEN prev
    ELSE LET data == list[i]
             assign == AssignOf(data)
             offset == (i - 1) * 30
             label == [id |-> i,
                       text |-> LatexOf(data),
                       position |-> [x |-> center2.x + 2 * offset, y |-> center2.y + 2 * offset]]
         IN  PlaceLabels_indexId(IF assign = "true" THEN Append(prev, label) ELSE prev, list, i + 1, center2)

\* resp.data.forEach((data, index) => ...) of the label loop, from the entry at
\* position i of the sequence (index i - 1 of the array) on; center2 and the
\* positions are doubled
RECURSIVE PlaceLabels(_, _, _, _)
PlaceLabels(prev, list, i, center2) ==
    IF i > Len(list)
    THEN prev
    ELSE LET data == list[i]
             assign == AssignOf(data)
             offset == (i - 1) * 30
             label == [id |-> Len(prev) + 1,
                       text |-> LatexOf(data),
                       position |-> [x |-> center2.x + 2 * offset, y |-> center2.y + 2 * offset]]
         IN  PlaceLabels(IF assign = "true" THEN Append(prev, label) ELSE prev, list, i + 1, center2)

\* a continuation that wraps a payload that is not a list into a list
runRouteResume_wrap(i, resp) ==
    /\ i \in 1..Len(calls)
    /\ calls' = RemoveAt(calls, i)
    /\ LET data == IF resp.kind = "list" THEN resp.data
                   ELSE IF resp.kind = "notList" THEN <<resp.payload>> ELSE <<>>
       IN  /\ dictOfVars' = MergeAll(dictOfVars, data)
           /\ latexExpressions' = PlaceLabels(latexExpressions, data, 1, Center2(raster))
    /\ ev' = "none"
    /\ UNCHANGED <<canvasVars, gestureVars, historyVars, pending, textItems, nextTextItemId,
                   fontSize, selectedTextItemId, saves>>

\* a continuation that scans the export copy posted with the call
runRouteResume_export(i, resp) ==
    /\ i \in 1..Len(calls)
    /\ calls' = RemoveAt(calls, i)
    /\ IF resp.kind = "list"
       THEN /\ dictOfVars' = MergeAll(dictOfVars, resp.data)
            /\ latexExpressions' = PlaceLabels(latexExpressions, resp.data, 1, Center2(calls[i].image.data))
       ELSE UNCHANGED <<dictOfVars, latexExpressions>>
    /\ ev' = "none"
    /\ UNCHANGED <<canvasVars, gestureVars, historyVars, pending, textItems, nextTextItemId,
                   fontSize, selectedTextItemId, saves>>

\* a continuation that merges into the bindings and the labels its closure
\* captured when the call was made, not into the current ones
runRouteResume_closure(i, resp) ==
    /\ i \in 1..Len(calls)
    /\ calls' = RemoveAt(calls, i)
    /\ IF resp.kind = "list"
       THEN /\ dictOfVars' = MergeAll(calls[i].dict_of_vars, resp.data)
            /\ latexExpressions' = PlaceLabels(<<>>, resp.data, 1, Center2(raster))
       ELSE UNCHANGED <<dictOfVars, latexExpressions>>
    /\ ev' = "none"
    /\ UNCHANGED <<canvasVars, gestureVars, historyVars, pending, textItems, nextTextItemId,
                   fontSize, selectedTextItemId, saves>>

\* runRoute after the await, for the i-th call in flight.  resp is how the
\* promise settled: "rejected" (axios throws), "notList" (resp.data is the
\* payload, one entry that is not wrapped in an array: the error is logged,
\* then resp.data.forEach throws a TypeError that the catch logs) or "list"
\* with the array in data
runRouteResume(i, resp) ==
    /\ i \in 1..Len(calls)
    /\ calls' = RemoveAt(calls, i)
    /\ IF resp.kind = "list"
       THEN /\ dictOfVars' = MergeAll(dictOfVars, resp.data)
            /\ latexExpressions' = PlaceLabels(latexExpressions, resp.data, 1, Center2(raster))
       ELSE UNCHANGED <<dictOfVars, latexExpressions>>
    /\ ev' = "none"
    /\ UNCHANGED <<canvasVars, gestureVars, historyVars, pending, textItems, nextTextItemId,
                   fontSize, selectedTextItemId, saves>>

\* ------------------------------------------------------ the editor
Origin == Point(0, 0)

\* the toolbar buttons pressed while handlers interleave: on one pixel the
\* three shape buttons draw the same shape, Rectangle stands for them
RaceToolButtons == {"text", "rectangle"}

\* every handler in every order, decodes completing in any order; the
\* pointer stays on one pixel
Next ==
    \/ saves < MaxSaves /\ startDrawing(Origin) /\ UNCHANGED observers
    \/ saves < MaxSaves /\ startDrawingTouch(Origin) /\ UNCHANGED observers
    \/ (isDrawing \/ Len(pending) < MaxPending) /\ draw(Origin) /\ UNCHANGED observers
    \/ (isDrawing \/ Len(pending) < MaxPending) /\ drawTouch(Origin) /\ UNCHANGED observers
    \/ stopDrawing(Origin) /\ UNCHANGED observers
    \/ /\ isDrawing \/ saves < MaxSaves
       /\ \E t \in {Origin, NoPoint} : stopDrawingTouch(t)
       /\ UNCHANGED observers
    \/ (Len(undoStack) = 0 \/ Len(pending) < MaxPending) /\ undo /\ UNCHANGED observers
    \/ (Len(redoStack) = 0 \/ Len(pending) < MaxPending) /\ redo /\ UNCHANGED observers
    \/ (\E i \in 1..Len(pending) : onload(i)) /\ UNCHANGED observers
    \/ resetClick /\ UNCHANGED observers
    \/ toggleEraser /\ UNCHANGED observers
    \/ (\E t \in RaceToolButtons : setCurrentTool(t)) /\ UNCHANGED observers

Spec == Init /\ [][Next]_vars

\* ------------------------------------------------------ undo then redo
UndoActed == Len(undoStack') = Len(undoStack) - 1 /\ Len(redoStack') = Len(redoStack) + 1
RedoActed == Len(redoStack') = Len(redoStack) - 1 /\ Len(undoStack') = Len(undoStack) + 1
OnloadActed == Len(pending') = Len(pending) - 1

\* an undo() that acts remembers what it is about to change; a redo() that
\* follows it with no other handler in between marks the pair complete; decode
\* completions keep the memory, every other handler drops it
ObserveUndone ==
    undone' = CASE UndoActed -> [st |-> "undone", u |-> undoStack, r |-> redoStack, raster |-> raster]
                [] RedoActed -> IF undone.st = "undone" THEN [undone EXCEPT !.st = "redone"] ELSE NotUndone
                [] OnloadActed -> undone
                [] OTHER -> NotUndone

\* the handlers of Next, with up to MaxRacePending decodes in flight
NextUndoRedo ==
    \/ saves < MaxSaves /\ startDrawing(Origin) /\ ObserveUndone /\ UNCHANGED <<script, lastOp, settled, geo, runs>>
    \/ saves < MaxSaves /\ startDrawingTouch(Origin) /\ ObserveUndone /\ UNCHANGED <<script, lastOp, settled, geo, runs>>
    \/ /\ isDrawing \/ Len(pending) < MaxRacePending
       /\ draw(Origin) /\ ObserveUndone /\ UNCHANGED <<script, lastOp, settled, geo, runs>>
    \/ /\ isDrawing \/ Len(pending) < MaxRacePending
       /\ drawTouch(Origin) /\ ObserveUndone /\ UNCHANGED <<script, lastOp, settled, geo, runs>>
    \/ stopDrawing(Origin) /\ ObserveUndone /\ UNCHANGED <<script, lastOp, settled, geo, runs>>
    \/ /\ isDrawing \/ saves < MaxSaves
       /\ \E t \in {Origin, NoPoint} : stopDrawingTouch(t)
       /\ ObserveUndone /\ UNCHANGED <<script, lastOp, settled, geo, runs>>
    \/ /\ Len(undoStack) = 0 \/ Len(pending) < MaxRacePending
       /\ undo /\ ObserveUndone /\ UNCHANGED <<script, lastOp, settled, geo, runs>>
    \/ /\ Len(redoStack) = 0 \/ Len(pending) < MaxRacePending
       /\ redo /\ ObserveUndone /\ UNCHANGED <<script, lastOp, settled, geo, runs>>
    \/ (\E i \in 1..Len(pending) : onload(i)) /\ ObserveUndone /\ UNCHANGED <<script, lastOp, settled, geo, runs>>
    \/ resetClick /\ ObserveUndone /\ UNCHANGED <<script, lastOp, settled, geo, runs>>
    \/ toggleEraser /\ ObserveUndone /\ UNCHANGED <<script, lastOp, settled, geo, runs>>
    \/ (\E t \in RaceToolButtons : setCurrentTool(t)) /\ ObserveUndone /\ UNCHANGED <<script, lastOp, settled, geo, runs>>

SpecUndoRedo == Init /\ [][NextUndoRedo]_vars

\* ------------------------------------------------------ sequential use
\* One user with a mouse: a gesture is pointer-down, moves, pointer-up with
\* nothing in between, the toolbar and the keyboard are used between gestures,
\* and every decode completes before the next event.
Quiet == pending = <<>>
Idle == ~isDrawing /\ startPoint = NoPoint
\* saveState() calls a gesture with the active tool makes
SavesOf(tool) == IF tool \in ShapeTools THEN 2 ELSE IF tool \in FreehandTools THEN 1 ELSE 0

OffScript == [phase |-> "off", n |-> 0, k |-> 0, j |-> 0, final |-> Blank]

\* script: "ops" while only gestures were made since the mount (n of them
\* completed, final the raster after the last), "undo" while only undos
\* followed (k of them), "redo" while only redos followed those (j of them)
ScriptDown == script' = IF script.phase = "ops" \/ currentTool \notin DrawingTools THEN script ELSE OffScript
ScriptUp ==
    script' = IF script.phase = "ops"
              THEN [script EXCEPT !.n = script.n + 1, !.final = raster']
              ELSE script
ScriptUndo ==
    script' = IF ~UndoActed THEN script
              ELSE IF script.phase = "ops" /\ script.n > 0 THEN [script EXCEPT !.phase = "undo", !.k = 1]
              ELSE IF script.phase = "undo" THEN [script EXCEPT !.k = script.k + 1]
              ELSE OffScript
ScriptRedo ==
    script' = IF ~RedoActed THEN script
              ELSE IF script.phase = "undo" THEN [script EXCEPT !.phase = "redo", !.j = 1]
              ELSE IF script.phase = "redo" THEN [script EXCEPT !.j = script.j + 1]
              ELSE OffScript

\* lastOp: the gesture made last, the raster at its pointer-down, and the
\* undos made since it completed with no other handler in between
OpDown ==
    lastOp' = IF currentTool \in DrawingTools
              THEN [kind |-> "open", pre |-> raster, undos |-> 0]
              ELSE lastOp
OpUp == lastOp' = [lastOp EXCEPT !.kind = IF isDrawing THEN "stroke" ELSE "shape"]
OpUndo ==
    lastOp' = IF ~UndoActed THEN lastOp
              ELSE IF lastOp.kind \in {"stroke", "shape"} /\ lastOp.undos < 2
              THEN [lastOp EXCEPT !.undos = lastOp.undos + 1]
              ELSE NoOp
OpRedo == lastOp' = IF RedoActed THEN NoOp ELSE lastOp

NextSeq ==
    \/ /\ Quiet /\ Idle /\ saves + SavesOf(currentTool) <= MaxSeqSaves
       /\ \E p \in Pix : startDrawing(p)
       /\ ScriptDown /\ OpDown /\ UNCHANGED <<undone, settled, geo, runs>>
    \/ /\ Quiet /\ ~Idle
       /\ \E p \in Pix : draw(p)
       /\ UNCHANGED observers
    \/ /\ Quiet /\ ~Idle
       /\ \E p \in Pix : stopDrawing(p)
       /\ ScriptUp /\ OpUp /\ UNCHANGED <<undone, settled, geo, runs>>
    \/ Quiet /\ Idle /\ undo /\ ScriptUndo /\ OpUndo /\ UNCHANGED <<undone, settled, geo, runs>>
    \/ Quiet /\ Idle /\ redo /\ ScriptRedo /\ OpRedo /\ UNCHANGED <<undone, settled, geo, runs>>
    \/ onload(1) /\ UNCHANGED observers
    \/ Quiet /\ Idle /\ resetClick /\ script' = OffScript /\ lastOp' = NoOp /\ UNCHANGED <<undone, settled, geo, runs>>
    \/ Quiet /\ Idle /\ toggleEraser /\ UNCHANGED observers
    \/ Quiet /\ Idle /\ (\E t \in ToolButtons : setCurrentTool(t)) /\ UNCHANGED observers

SpecSeq == Init /\ [][NextSeq]_vars

\* ------------------------------------------------------ mouse and touch
\* One user with a mouse and a touch screen: gestures one after the other, the
\* toolbar and the keyboard between gestures.  A touch gesture ends with the
\* last finger lifted (touches is empty) or with another finger still down.
NextTouch ==
    \/ /\ Quiet /\ Idle /\ saves < MaxSeqSaves
       /\ \E p \in Pix : startDrawing(p)
       /\ UNCHANGED observers
    \/ /\ Quiet /\ Idle /\ saves < MaxSeqSaves
       /\ \E p \in Pix : startDrawingTouch(p)
       /\ UNCHANGED observers
    \/ Quiet /\ ~Idle /\ (\E p \in Pix : draw(p)) /\ UNCHANGED observers
    \/ Quiet /\ ~Idle /\ (\E p \in Pix : drawTouch(p)) /\ UNCHANGED observers
    \/ Quiet /\ ~Idle /\ (\E p \in Pix : stopDrawing(p)) /\ UNCHANGED observers
    \/ /\ Quiet /\ ~Idle /\ (isDrawing \/ saves <= MaxSeqSaves)
       /\ \E t \in Pix \cup {NoPoint} : stopDrawingTouch(t)
       /\ UNCHANGED observers
    \/ Quiet /\ Idle /\ undo /\ UNCHANGED observers
    \/ Quiet /\ Idle /\ redo /\ UNCHANGED observers
    \/ onload(1) /\ UNCHANGED observers
    \/ Quiet /\ Idle /\ resetClick /\ UNCHANGED observers
    \/ Quiet /\ Idle /\ toggleEraser /\ UNCHANGED observers
    \/ Quiet /\ Idle /\ (\E t \in ToolButtons : setCurrentTool(t)) /\ UNCHANGED observers

SpecTouch == Init /\ [][NextTouch]_vars

\* ------------------------------------------------------ a drag and the keyboard
MaxDragSaves == 3

\* lastOp over a keyboard undo or redo: kept while the gesture is open, dropped
\* once it has completed
OpKey == lastOp' = IF lastOp.kind = "open" THEN lastOp ELSE NoOp

\* One user with a mouse and a keyboard: gestures start when nothing is in
\* flight; during a shape drag and between gestures Ctrl+Z and Ctrl+Y are
\* pressed at any time, and decodes complete in any order at any time
NextDrag ==
    \/ /\ Quiet /\ Idle /\ saves + SavesOf(currentTool) <= MaxDragSaves
       /\ \E p \in Pix : startDrawing(p)
       /\ OpDown /\ UNCHANGED <<script, undone, settled, geo, runs>>
    \/ /\ ~Idle /\ (isDrawing \/ Len(pending) < MaxRacePending)
       /\ \E p \in Pix : draw(p)
       /\ UNCHANGED observers
    \/ /\ ~Idle
       /\ \E p \in Pix : stopDrawing(p)
       /\ OpUp /\ UNCHANGED <<script, undone, settled, geo, runs>>
    \/ /\ ~isDrawing /\ (Len(undoStack) = 0 \/ Len(pending) < MaxRacePending)
       /\ undo
       /\ OpKey /\ UNCHANGED <<script, undone, settled, geo, runs>>
    \/ /\ ~isDrawing /\ (Len(redoStack) = 0 \/ Len(pending) < MaxRacePending)
       /\ redo
       /\ OpKey /\ UNCHANGED <<script, undone, settled, geo, runs>>
    \/ (\E i \in 1..Len(pending) : onload(i)) /\ UNCHANGED observers
    \/ Quiet /\ Idle /\ setCurrentTool("rectangle") /\ UNCHANGED observers

SpecDrag == Init /\ [][NextDrag]_vars

\* ------------------------------------------------------ a long history
\* Sequential use with the pencil on one pixel, long enough to fill undoStack
NextHist ==
    \/ Quiet /\ Idle /\ saves < MaxHistSaves /\ startDrawing(Origin) /\ UNCHANGED observers
    \/ Quiet /\ ~Idle /\ draw(Origin) /\ UNCHANGED observers
    \/ Quiet /\ ~Idle /\ stopDrawing(Origin) /\ UNCHANGED observers
    \/ Quiet /\ Idle /\ undo /\ UNCHANGED observers
    \/ Quiet /\ Idle /\ redo /\ UNCHANGED observers
    \/ onload(1) /\ UNCHANGED observers
    \/ Quiet /\ Idle /\ resetClick /\ UNCHANGED observers

SpecHist == Init /\ [][NextHist]_vars

\* ------------------------------------------------------ text items
\* what the default font size input is set to
FontSizes == {16, 24}

\* one user with a mouse, as in NextSeq, drawing on one pixel, who also places
\* text items anywhere on the canvas
NextText ==
    \/ /\ Quiet /\ Idle /\ saves + SavesOf(currentTool) <= MaxSaves
       /\ startDrawing(Origin)
       /\ UNCHANGED observers
    \/ Quiet /\ ~Idle /\ draw(Origin) /\ UNCHANGED observers
    \/ Quiet /\ ~Idle /\ stopDrawing(Origin) /\ UNCHANGED observers
    \/ Quiet /\ Idle /\ undo /\ UNCHANGED observers
    \/ onload(1) /\ UNCHANGED observers
    \/ Quiet /\ Idle /\ resetClick /\ UNCHANGED observers
    \/ Quiet /\ Idle /\ toggleEraser /\ UNCHANGED observers
    \/ Quiet /\ Idle /\ (\E t \in ToolButtons : setCurrentTool(t)) /\ UNCHANGED observers
    \/ /\ Quiet /\ Idle /\ (currentTool # "text" \/ nextTextItemId <= MaxTexts)
       /\ \E p \in Pix : handleCanvasClick(p)
       /\ UNCHANGED observers
    \/ Quiet /\ Idle /\ (\E n \in FontSizes : setFontSize(n)) /\ UNCHANGED observers

SpecText == Init /\ [][NextText]_vars

\* ------------------------------------------------------ shape geometry
GeomR == 2
\* start and end points of a drag
GeomPoints == {Point(px, py) : px \in 0..GeomR, py \in 0..GeomR}

InitGeom ==
    /\ Mounted
    /\ geo \in {[tool |-> t, start |-> a, end |-> b, stamped |-> <<>>] :
                    t \in {"square", "triangle"}, a \in GeomPoints, b \in GeomPoints}

\* drawShape(ctx, tool, start, end) on a path begun with ctx.beginPath()
stampShape ==
    /\ geo.stamped = <<>>
    /\ geo' = [geo EXCEPT !.stamped = ShapeCalls(geo.tool, geo.start, geo.end)]
    /\ path' = drawShape(beginPath, geo.tool, geo.start, geo.end)
    /\ ev' = "none"
    /\ UNCHANGED <<raster, gco, gestureVars, historyVars, pending, overlayVars, saves,
                   script, lastOp, undone, settled, runs>>

NextGeom == stampShape

SpecGeom == InitGeom /\ [][NextGeom]_vars

\* ------------------------------------------------------ the text layer
\* what the editable text of an item is changed to
ItemTexts == {"x"}
\* what the font size input of the selected item is set to
ItemFontSizes == {8, 24}
ItemIds == {textItems[i].id : i \in 1..Len(textItems)}
\* where items are placed and dragged to: the two ends of the canvas
Corners == {Origin, Point(CanvasW - 1, 0)}

\* one user who places, selects, edits, drags, resizes and deletes text items
\* and resets the editor; nothing is drawn
NextItems ==
    \/ toggleEraser /\ UNCHANGED observers
    \/ setCurrentTool("text") /\ UNCHANGED observers
    \/ /\ currentTool # "text" \/ nextTextItemId <= MaxTexts
       /\ \E p \in Corners : handleCanvasClick(p)
       /\ UNCHANGED observers
    \/ (\E n \in FontSizes : setFontSize(n)) /\ UNCHANGED observers
    \/ (\E id \in ItemIds : onFocus(id)) /\ UNCHANGED observers
    \/ (\E id \in ItemIds, t \in ItemTexts : handleBlur(id, t)) /\ UNCHANGED observers
    \/ (\E id \in ItemIds, p \in Corners : updateTextItemPosition(id, p)) /\ UNCHANGED observers
    \/ (\E n \in ItemFontSizes : setSelectedFontSize(n)) /\ UNCHANGED observers
    \/ deleteText /\ UNCHANGED observers
    \/ resetClick /\ UNCHANGED observers

SpecItems == Init /\ [][NextItems]_vars

\* ------------------------------------------------------ annotate and submit
\* the entries the solver answers with
Entries ==
    {[expr |-> "x", result |-> "1", assign |-> "true"],
     [expr |-> "x", result |-> "2", assign |-> "false"],
     [expr |-> "y", result |-> "1", assign |-> "absent"]}
\* how a call settles
Responses ==
    {[kind |-> "rejected"]}
        \cup {[kind |-> "notList", payload |-> d] : d \in Entries}
        \cup {[kind |-> "list", data |-> d] : d \in UNION {[1..k -> Entries] : k \in 0..MaxResp}}

\* settled holds the response that the last step processed, if it processed one
ForgetSettled == settled' = NotSettled /\ UNCHANGED <<script, lastOp, undone, geo, runs>>

\* one user with a mouse, as in NextSeq, drawing on one pixel, who also places
\* one text item and runs the solver while no label is shown and no call is in
\* flight; the call settles at any time after it was made
NextRun ==
    \/ /\ Quiet /\ Idle /\ saves + SavesOf(currentTool) <= MaxSaves
       /\ startDrawing(Origin)
       /\ ForgetSettled
    \/ Quiet /\ ~Idle /\ draw(Origin) /\ ForgetSettled
    \/ Quiet /\ ~Idle /\ stopDrawing(Origin) /\ ForgetSettled
    \/ Quiet /\ Idle /\ undo /\ ForgetSettled
    \/ onload(1) /\ ForgetSettled
    \/ Quiet /\ Idle /\ resetClick /\ ForgetSettled
    \/ Quiet /\ Idle /\ toggleEraser /\ ForgetSettled
    \/ Quiet /\ Idle /\ (\E t \in RaceToolButtons : setCurrentTool(t)) /\ ForgetSettled
    \/ /\ Quiet /\ Idle /\ (currentTool # "text" \/ nextTextItemId = 1)
       /\ handleCanvasClick(Origin)
       /\ ForgetSettled
    \/ /\ Quiet /\ Idle /\ calls = <<>> /\ latexExpressions = <<>>
       /\ runRoute
       /\ ForgetSettled
    \/ /\ \E i \in 1..Len(calls), resp \in Responses :
            /\ runRouteResume(i, resp)
            /\ settled' = [image |-> calls[i].image, resp |-> resp]
       /\ UNCHANGED <<script, lastOp, undone, geo, runs>>

SpecRun == Init /\ [][NextRun]_vars

\* ------------------------------------------------------ overlapping runs
MaxRuns == 2
MaxLateResp == 1
\* how a call settles here: as in Responses, with lists of at most MaxLateResp
\* entries
ShortResponses == {r \in Responses : r.kind # "list" \/ Len(r.data) <= MaxLateResp}

\* runs.stale[i]: Reset was pressed after the i-th call in flight was made;
\* runs.fresh: a call made after the last reset has settled; runs.log: the
\* calls that settled since the last reset, with the number of calls that
\* were in flight then and the position of the one that settled
RunStarted == runs' = [runs EXCEPT !.stale = Append(@, FALSE), !.n = @ + 1]
RunsReset == runs' = [stale |-> [i \in 1..Len(calls) |-> TRUE], fresh |-> FALSE, log |-> <<>>, n |-> runs.n]
RunSettled(i, resp) ==
    runs' = [runs EXCEPT !.stale = RemoveAt(@, i),
                         !.fresh = @ \/ ~runs.stale[i],
                         !.log = Append(@, [resp |-> resp, inflight |-> Len(calls), pos |-> i,
                                            stale |-> runs.stale[i]])]

\* the Run button pressed up to MaxRuns times, a new run also while earlier
\* calls are in flight; the calls settle in any order, Reset at any time
NextLate ==
    \/ runs.n < MaxRuns /\ runRoute /\ RunStarted /\ UNCHANGED <<script, lastOp, undone, settled, geo>>
    \/ /\ \E i \in 1..Len(calls), resp \in ShortResponses : runRouteResume(i, resp) /\ RunSettled(i, resp)
       /\ UNCHANGED <<script, lastOp, undone, settled, geo>>
    \/ resetClick /\ RunsReset /\ UNCHANGED <<script, lastOp, undone, settled, geo>>

SpecLate == Init /\ [][NextLate]_vars

\* ------------------------------------------------------ the result labels
MaxLabels == 2
\* the labels on screen, one Draggable each, keyed by the id
LabelIds == {latexExpressions[k].id : k \in 1..Len(latexExpressions)}

\* onStop of the Draggable of the label with this id, dropped at data: the
\* functional updater maps over the labels and replaces the position of those
\* whose id is the id the Draggable was rendered with (positions are doubled)
latexOnStop(id, data) ==
    /\ id \in LabelIds
    /\ latexExpressions' = MapItems(latexExpressions, id, "position", [x |-> 2 * data.x, y |-> 2 * data.y])
    /\ ev' = "none"
    /\ UNCHANGED <<canvasVars, gestureVars, historyVars, pending, dictOfVars, textItems,
                   nextTextItemId, fontSize, selectedTextItemId, calls, saves>>

\* Run pressed again and again, also while earlier calls are in flight (at
\* most MaxRuns at a time); the calls settle in any order while no more than
\* MaxLabels labels are shown, labels are dragged, Reset at any time
NextLabels ==
    \/ Len(calls) < MaxRuns /\ runRoute /\ UNCHANGED observers
    \/ /\ \E i \in 1..Len(calls), resp \in ShortResponses :
            runRouteResume(i, resp) /\ Len(latexExpressions') <= MaxLabels
       /\ UNCHANGED observers
    \/ (\E id \in LabelIds, p \in Corners : latexOnStop(id, p)) /\ UNCHANGED observers
    \/ resetClick /\ UNCHANGED observers

SpecLabels == Init /\ [][NextLabels]_vars

\* ====================================================== properties

\* C1 (as amended): from the blank raster with empty stacks, after completed
\* gestures that recorded at most MAX_STACK_SIZE snapshots in all (one per
\* freehand or erase stroke, two per shape drag), one undo() per recorded
\* snapshot, each decode completing before the next call, leaves the raster
\* equal to the initial blank raster.
C1_UndoEverySnapshotRestoresBlank ==
    (script.phase = "undo" /\ script.k = saves /\ Quiet) => raster = Blank
\* a shape drag was made, its ink was on the canvas, every snapshot is undone
C1_Witness ==
    /\ script.phase = "undo" /\ script.k = saves /\ Quiet
    /\ script.n >= 1 /\ script.n < saves /\ script.final # Blank
\* C1 as stated: N completed operations, shape drags among them, then N undos
C1_UndoOncePerOperationRestoresBlank ==
    (script.phase = "undo" /\ script.k = script.n /\ Quiet) => raster = Blank

\* C2: after N completed operations, N undos and then N redos, each decode
\* completing before the next call, the raster equals the raster as it was
\* after the last operation.
C2_RedoAllRestoresFinal ==
    (script.phase = "redo" /\ script.k = script.n /\ script.j = script.n /\ Quiet)
        => raster = script.final
C2_Witness ==
    /\ script.phase = "redo" /\ script.k = script.n /\ script.j = script.n /\ Quiet
    /\ script.n >= 2 /\ script.final # Blank /\ raster = script.final

\* C3: undoStack never holds more than MAX_STACK_SIZE snapshots, whether the
\* last push was made by saveState or by redo.
C3_UndoStackBounded == Len(undoStack) <= MAX_STACK_SIZE
\* redo() has just pushed the snapshot that fills undoStack
C3_Witness == ev = "redo" /\ Len(undoStack) = MAX_STACK_SIZE

\* C4: a saveState() made while undoStack holds MAX_STACK_SIZE snapshots
\* leaves the 19 newest of them in their order followed by the new snapshot.
C4_EvictsExactlyTheOldest ==
    [][(ev' = "record" /\ Len(undoStack) = MAX_STACK_SIZE)
         => undoStack' = Append(Tail(undoStack), toDataURL(raster))]_vars
\* the 21st snapshot has been pushed and the blank snapshot of the first
\* pointer-down is gone
C4_Witness ==
    /\ ev = "record" /\ saves = MAX_STACK_SIZE + 1
    /\ Len(undoStack) = MAX_STACK_SIZE
    /\ undoStack[1] # toDataURL(Blank)

\* C5: a pointer handler that changes the raster leaves redoStack empty.
C5_DrawingMutatesWithEmptyRedo ==
    [][((draw(Origin) \/ drawTouch(Origin) \/ stopDrawing(Origin)
            \/ stopDrawingTouch(Origin) \/ stopDrawingTouch(NoPoint))
        /\ raster' # raster)
         => Len(redoStack') = 0]_vars

C7_RedoInvertsUndo ==
    (undone.st = "redone" /\ Quiet)
        => /\ undoStack = undone.u
           /\ redoStack = undone.r
           /\ raster = undone.raster

\* C8: undo() with an empty undoStack and redo() with an empty redoStack
\* change nothing of the editor's state.
C8_EmptyStackIsNoOp ==
    [][(\/ ev' \in {"undo", "undo:empty"} /\ Len(undoStack) = 0
        \/ ev' \in {"redo", "redo:empty"} /\ Len(redoStack) = 0)
         => UNCHANGED progVars]_vars
\* undo() has just been called on an empty undoStack, with a restore in flight
C8_Witness == ev = "undo:empty" /\ Len(undoStack) = 0 /\ Len(redoStack) > 0 /\ ~Quiet

\* C9: the completion of a decode request that is not the most recently issued
\* one (a later request is still in flight) does not paint.
C9_StaleDecodeIsDiscarded ==
    [][\A i \in 1..Len(pending) :
          (onload(i) /\ i < Len(pending)) => (raster' = raster /\ path' = path)]_vars

\* C10: in ShapePending a pointer-move, and the completion of the preview
\* decode it issued, leave the raster unchanged.
C10_PreviewLeavesRasterUntouched ==
    [][(/\ ~isDrawing /\ startPoint # NoPoint /\ currentTool \in ShapeTools
        /\ \/ \E p \in Pix : draw(p)
           \/ pending # <<>> /\ pending[1].kind = "preview" /\ onload(1))
         => raster' = raster]_vars

\* C11: after onMouseUp, onMouseOut, onTouchEnd or onTouchCancel has run the
\* editor is Idle with no pending shape: isDrawing is false and startPoint
\* is null.
C11_EveryGestureEnds ==
    [][((\E p \in Pix : stopDrawing(p)) \/ (\E t \in Pix \cup {NoPoint} : stopDrawingTouch(t)))
         => (~isDrawing' /\ startPoint' = NoPoint)]_vars

\* C12: with a shape tool, pointer-down in Idle records history, stores the
\* start point and changes no pixel; pointer-up in ShapePending records
\* history again, strokes the final shape and clears the start point; the
\* pointer-up of a freehand or erase stroke records nothing.
C12_ShapeDragRecordsTwice ==
    [][/\ \A p \in Pix :
            (Idle /\ currentTool \in ShapeTools /\ (startDrawing(p) \/ startDrawingTouch(p)))
                => (ev' = "record" /\ startPoint' = p /\ raster' = raster)
       /\ (/\ ~isDrawing /\ startPoint # NoPoint /\ currentTool \in ShapeTools
           /\ (\E p \in Pix : stopDrawing(p)) \/ (\E t \in Pix \cup {NoPoint} : stopDrawingTouch(t)))
            => /\ ev' = "record"
               /\ startPoint' = NoPoint
               /\ \E end \in Pix :
                     raster' = stroke(raster, drawShape(beginPath, currentTool, startPoint, end).pts, gco)
       /\ (isDrawing /\ ((\E p \in Pix : stopDrawing(p)) \/ (\E t \in Pix \cup {NoPoint} : stopDrawingTouch(t))))
            => ev' = "none"]_vars

\* C13: after a tool button has been pressed the editor is Idle with no pending
\* start point, whatever gesture was in progress.
C13_ToolSwitchEndsGesture ==
    [][(toggleEraser \/ \E t \in ToolButtons : setCurrentTool(t))
         => (~isDrawing' /\ startPoint' = NoPoint)]_vars

\* C14: the active tool is always one of the tools, and pressing a tool button
\* leaves the raster, undoStack, redoStack, the text items, the labels and the
\* variable bindings as they were.
C14_ToolSelectionChangesOnlyTheTool ==
    /\ [](currentTool \in Tool)
    /\ [][(toggleEraser \/ \E t \in ToolButtons : setCurrentTool(t))
            => UNCHANGED <<raster, undoStack, redoStack, textItems, latexExpressions, dictOfVars>>]_vars
\* Rectangle was selected after a stroke, a text item and a solver run
C14_Witness ==
    /\ currentTool = "rectangle"
    /\ raster # Blank /\ undoStack # <<>>
    /\ textItems # <<>> /\ latexExpressions # <<>> /\ DOMAIN dictOfVars # {}

\* C15: with the Text tool active, a pointer-down and a click on the canvas
\* leave the raster, undoStack, redoStack, isDrawing and startPoint unchanged;
\* the click appends one text item at the click position with the placeholder
\* text and the default font size, and nothing else of the canvas, the history
\* or the overlays changes.
C15_TextClickOnlyAddsAnItem ==
    [][\A p \in Pix :
          /\ (currentTool = "text" /\ (startDrawing(p) \/ handleCanvasClick(p)))
                => UNCHANGED <<raster, undoStack, redoStack, isDrawing, startPoint>>
          /\ (currentTool = "text" /\ handleCanvasClick(p))
                => /\ Len(textItems') = Len(textItems) + 1
                   /\ SubSeq(textItems', 1, Len(textItems)) = textItems
                   /\ textItems'[Len(textItems')].position = p
                   /\ textItems'[Len(textItems')].text = "Double-click to edit"
                   /\ textItems'[Len(textItems')].fontSize = fontSize
                   /\ UNCHANGED <<canvasVars, gestureVars, historyVars, pending, dictOfVars,
                                  latexExpressions, fontSize, selectedTextItemId, calls>>]_vars
\* a text item was placed over ink, after the default font size was changed
C15_Witness ==
    /\ currentTool = "text" /\ textItems # <<>>
    /\ textItems[Len(textItems)].fontSize = 24 /\ textItems[Len(textItems)].position # Origin
    /\ raster # Blank /\ undoStack # <<>>

\* C16: when a call settles with a list, every entry's expression is bound to
\* its result in dictOfVars, entries with assign false included (for an
\* expression that occurs twice the later entry wins), the other bindings are
\* kept, and an entry with assign false adds no label.
C16_EveryEntryIsBound ==
    [][(Len(calls') < Len(calls) /\ settled'.resp.kind = "list")
            => LET data == settled'.resp.data
                   exprs == {data[j].expr : j \in 1..Len(data)}
               IN  /\ DOMAIN dictOfVars' = DOMAIN dictOfVars \cup exprs
                   /\ \A k \in DOMAIN dictOfVars' :
                         dictOfVars'[k] =
                            IF k \in exprs
                            THEN data[SetMax({j \in 1..Len(data) : data[j].expr = k})].result
                            ELSE dictOfVars[k]
                   /\ Len(latexExpressions') =
                         Len(latexExpressions) + Cardinality({j \in 1..Len(data) : data[j].assign # "false"})]_vars
\* a list whose only entry has assign false was processed: x is bound, no label
C16_Witness ==
    /\ settled.resp.kind = "list" /\ calls = <<>>
    /\ "x" \in DOMAIN dictOfVars /\ dictOfVars["x"] = "2"
    /\ latexExpressions = <<>>

\* C17: when a call settles with a list, one label is appended for each entry
\* whose assign flag is true or absent, in response order, with the text of
\* its entry, at center + (index * 30, index * 30) where index is the entry's
\* 0-based position in the whole list and center the midpoint of the opaque
\* bounds of the raster (positions are doubled in the model); bounds
\* (0,0,100,50) with flags [true, false, true] give (50,25) and (110,85).
C17_LabelsCascadeByListIndex ==
    /\ LET ex == PlaceLabels(<<>>,
                             <<[expr |-> "x", result |-> "1", assign |-> "true"],
                               [expr |-> "x", result |-> "2", assign |-> "false"],
                               [expr |-> "y", result |-> "1", assign |-> "true"]>>,
                             1, [x |-> 0 + 100, y |-> 0 + 50])
       IN  /\ Len(ex) = 2
           /\ ex[1].position = [x |-> 2 * 50, y |-> 2 * 25]
           /\ ex[2].position = [x |-> 2 * 110, y |-> 2 * 85]
    /\ [][(Len(calls') < Len(calls) /\ settled'.resp.kind = "list")
               => LET data == settled'.resp.data
                      idx == {j \in 1..Len(data) : data[j].assign \in {"true", "absent"}}
                      n == Len(latexExpressions)
                      c == Center2(raster)
                  IN  /\ Len(latexExpressions') = n + Cardinality(idx)
                      /\ SubSeq(latexExpressions', 1, n) = latexExpressions
                      /\ \A j \in idx :
                            LET label == latexExpressions'[n + Cardinality({h \in idx : h <= j})]
                            IN  /\ label.position = [x |-> c.x + 2 * 30 * (j - 1),
                                                     y |-> c.y + 2 * 30 * (j - 1)]
                                /\ label.text = LatexOf(data[j])]_vars
\* a list whose first entry has assign false and whose second has it absent
\* was processed: the one label is offset by 30
C17_Witness ==
    /\ settled.resp.kind = "list" /\ calls = <<>>
    /\ Len(latexExpressions) = 1
    /\ latexExpressions[1].text = LatexOf([expr |-> "y", result |-> "1"])
    /\ latexExpressions[1].position = [x |-> Center2(raster).x + 60, y |-> Center2(raster).y + 60]
    /\ "x" \in DOMAIN dictOfVars

\* C18: when a call is rejected or its payload is not a list, the labels, the
\* variable bindings, the raster and both stacks are unchanged and the run
\* ends.
C18_FailedRunIsNoOp ==
    [][(Len(calls') < Len(calls) /\ settled'.resp.kind # "list")
            => /\ UNCHANGED <<latexExpressions, dictOfVars, raster, undoStack, redoStack>>
               /\ Len(calls') = Len(calls) - 1]_vars
\* a payload that is not a list arrived when bindings and ink existed
C18_Witness ==
    /\ settled.resp.kind = "notList" /\ calls = <<>>
    /\ DOMAIN dictOfVars # {} /\ raster # Blank /\ undoStack # <<>>

\* C19: the labels of a list response are placed around the center of the
\* opaque bounds of the raster as it is when the response is processed.
C19_LabelsAnchoredOnCurrentRaster ==
    [][(Len(calls') < Len(calls) /\ settled'.resp.kind = "list")
            => \A m \in (Len(latexExpressions) + 1)..Len(latexExpressions') :
                  \E j \in 1..Len(settled'.resp.data) :
                     latexExpressions'[m].position =
                        [x |-> Center2(raster).x + 60 * (j - 1), y |-> Center2(raster).y + 60 * (j - 1)]]_vars
\* the canvas was erased while the call was in flight: the label sits at the
\* center of the current raster, which differs from the center of the export
C19_Witness ==
    /\ settled.resp.kind = "list" /\ latexExpressions # <<>>
    /\ Center2(settled.image.data) # Center2(raster)
    /\ latexExpressions[1].position = Center2(raster)

\* C20: once the Reset button has been processed the raster is blank white,
\* both stacks are empty and there are no text items, no labels and no
\* variable bindings.
C20_ResetClearsEverything ==
    [][resetClick
         => /\ raster' = Blank
            /\ undoStack' = <<>> /\ redoStack' = <<>>
            /\ textItems' = <<>> /\ latexExpressions' = <<>>
            /\ DOMAIN dictOfVars' = {}]_vars

\* C21: no two text items share an id, the ids in the list increase, every id
\* in use is below nextTextItemId, nextTextItemId never decreases (also over a
\* delete and a reset), and an item that appears in the list has an id that is
\* at least nextTextItemId, hence above every id given out before.
C21_TextItemIdsUniqueAndMonotone ==
    /\ [](/\ \A i, j \in 1..Len(textItems) : i < j => textItems[i].id < textItems[j].id
          /\ \A i \in 1..Len(textItems) : 1 <= textItems[i].id /\ textItems[i].id < nextTextItemId)
    /\ [][/\ nextTextItemId' >= nextTextItemId
          /\ \A i \in 1..Len(textItems') :
                textItems'[i].id \notin ItemIds => textItems'[i].id >= nextTextItemId]_vars
\* item 1 was deleted or reset away, and the item placed after that has id 2
C21_Witness == Len(textItems) = 1 /\ textItems[1].id = 2 /\ nextTextItemId = 3

\* C22: the Delete Text button removes the one item whose id is the selected
\* id, if there is one, and leaves every other item, with its id, position,
\* text and font size, in its place in the order.
C22_DeleteRemovesExactlyThatItem ==
    [][deleteText
         => LET hit == {i \in 1..Len(textItems) : textItems[i].id = selectedTextItemId}
            IN  /\ Cardinality(hit) <= 1
                /\ IF hit = {}
                   THEN textItems' = textItems
                   ELSE \E i \in hit : textItems' = RemoveAt(textItems, i)]_vars
\* item 2 was deleted; item 1, which had been dragged and edited, is as it was
C22_Witness ==
    /\ Len(textItems) = 1 /\ nextTextItemId = 3 /\ selectedTextItemId = 0
    /\ textItems[1].id = 1 /\ textItems[1].position # Origin /\ textItems[1].text = "x"

\* C23: at most one text item carries the selected id; changing the default
\* font size changes no item, and an item placed later gets the default of that
\* moment; changing the font size of the selected item changes the fontSize of
\* that item and nothing else.
C23_FontSizeScopes ==
    /\ [](Cardinality({i \in 1..Len(textItems) : textItems[i].id = selectedTextItemId}) <= 1)
    /\ [][/\ (\E n \in FontSizes : setFontSize(n)) => textItems' = textItems
          /\ Len(textItems') > Len(textItems) => textItems'[Len(textItems')].fontSize = fontSize
          /\ (\E n \in ItemFontSizes : setSelectedFontSize(n))
                => /\ Len(textItems') = Len(textItems)
                   /\ fontSize' = fontSize
                   /\ \A i \in 1..Len(textItems) :
                         IF textItems[i].id = selectedTextItemId
                         THEN \E n \in ItemFontSizes : textItems'[i] = [textItems[i] EXCEPT !.fontSize = n]
                         ELSE textItems'[i] = textItems[i]]_vars
\* item 1 is selected and was resized to 8, item 2 was placed with the changed
\* default
C23_Witness ==
    /\ Len(textItems) = 2 /\ selectedTextItemId = textItems[1].id /\ fontSize = 24
    /\ textItems[1].fontSize = 8 /\ textItems[2].fontSize = 24

\* C24: the Square tool stamps one box anchored at start whose width and
\* height both have the magnitude min(|end.x - start.x|, |end.y - start.y|),
\* the width with the sign of end.x - start.x and the height with the sign of
\* end.y - start.y; start (0,0), end (40,-10) gives the box (0,0) to (10,-10).
C24_SquareGeometry ==
    /\ ShapeCalls("square", Point(0, 0), Point(40, -10))
          = <<[op |-> "rect", x |-> 0, y |-> 0, w |-> 10, h |-> -10]>>
    /\ (geo.tool = "square" /\ geo.stamped # <<>>)
          => LET c == geo.stamped[1]
                 dx == geo.end.x - geo.start.x
                 dy == geo.end.y - geo.start.y
             IN  /\ Len(geo.stamped) = 1 /\ c.op = "rect"
                 /\ c.x = geo.start.x /\ c.y = geo.start.y
                 /\ Abs(c.w) = Abs(c.h)
                 /\ Abs(c.w) <= Abs(dx) /\ Abs(c.w) <= Abs(dy)
                 /\ Abs(c.w) = Abs(dx) \/ Abs(c.w) = Abs(dy)
                 /\ c.w * dx >= 0 /\ c.h * dy >= 0
\* a drag to the left and down, wider than high: the box goes left and down
\* with the height of the drag as its side
C24_Witness ==
    /\ geo.tool = "square" /\ geo.stamped # <<>>
    /\ geo.end.x - geo.start.x = -2 /\ geo.end.y - geo.start.y = 1
    /\ geo.stamped[1].w = -1 /\ geo.stamped[1].h = 1

\* C25: the Triangle tool stamps the closed path start, end,
\* (2 * start.x - end.x, end.y); start (10,10), end (20,30) gives the third
\* vertex (0,30).
C25_TriangleGeometry ==
    /\ ShapeCalls("triangle", Point(10, 10), Point(20, 30))[3] = [op |-> "lineTo", x |-> 0, y |-> 30]
    /\ (geo.tool = "triangle" /\ geo.stamped # <<>>)
          => /\ Len(geo.stamped) = 4
             /\ geo.stamped[1] = [op |-> "moveTo", x |-> geo.start.x, y |-> geo.start.y]
             /\ geo.stamped[2] = [op |-> "lineTo", x |-> geo.end.x, y |-> geo.end.y]
             /\ geo.stamped[3] = [op |-> "lineTo", x |-> 2 * geo.start.x - geo.end.x, y |-> geo.end.y]
             /\ geo.stamped[4].op = "closePath"
\* a drag to the right from the left edge: the third vertex lies left of the
\* canvas
C25_Witness ==
    /\ geo.tool = "triangle" /\ geo.stamped # <<>>
    /\ geo.start = Point(0, 0) /\ geo.end = Point(2, 1)
    /\ geo.stamped[3].x = -2 /\ geo.stamped[3].y = 1

\* C26: an undo() that acts shortens undoStack by one and lengthens redoStack
\* by one, a redo() that acts does the opposite, so neither changes
\* Len(undoStack) + Len(redoStack); that sum never exceeds MAX_STACK_SIZE, and
\* so redoStack never holds more than MAX_STACK_SIZE snapshots.
C26_StackSumBounded ==
    /\ [](/\ Len(undoStack) + Len(redoStack) <= MAX_STACK_SIZE
          /\ Len(redoStack) <= MAX_STACK_SIZE)
    /\ [][/\ ev' = "undo" => (Len(undoStack') = Len(undoStack) - 1 /\ Len(redoStack') = Len(redoStack) + 1)
          /\ ev' = "redo" => (Len(redoStack') = Len(redoStack) - 1 /\ Len(undoStack') = Len(undoStack) + 1)
          /\ ev' \in {"undo", "redo"}
                => Len(undoStack') + Len(redoStack') = Len(undoStack) + Len(redoStack)]_vars
\* a full undoStack was undone to the bottom: redoStack holds MAX_STACK_SIZE
\* snapshots
C26_Witness == ev = "undo" /\ undoStack = <<>> /\ Len(redoStack) = MAX_STACK_SIZE

\* C27: isDrawing is false or startPoint is null, and a startPoint that is not
\* null implies that the active tool is a shape tool.
C27_DrawingExcludesShapePending ==
    /\ ~isDrawing \/ startPoint = NoPoint
    /\ startPoint # NoPoint => currentTool \in ShapeTools

\* C28: once a shape drag has ended and every decode has completed, each pixel
\* that was inked when the drag started is inked in the raster or in one
\* snapshot of undoStack or redoStack.
C28_DragKeepsEarlierInk ==
    (lastOp.kind = "shape" /\ Quiet)
        => LET Holds(r) == \A p \in Pix : lastOp.pre[p] = "K" => r[p] = "K"
           IN  \/ Holds(raster)
               \/ \E i \in 1..Len(undoStack) : Holds(decode(undoStack[i]))
               \/ \E i \in 1..Len(redoStack) : Holds(decode(redoStack[i]))

\* C29: from a reset (or the mount) until a call made after it has settled,
\* there are no labels and no variable bindings.
C29_ResetOutlastsLateResponse ==
    ~runs.fresh => (latexExpressions = <<>> /\ DOMAIN dictOfVars = {})

\* C30: when two calls were in flight together and both have settled with no
\* reset since the first was made, every expression of both responses is
\* bound, an expression of the response processed last to its result there,
\* any other expression to its result in the response processed first, and
\* the labels of both responses are shown.
C30_OverlappingRunsLoseNothing ==
    (/\ Len(runs.log) = 2 /\ runs.log[1].inflight >= 2
     /\ ~runs.log[1].stale /\ ~runs.log[2].stale)
        => LET DataOf(resp) == IF resp.kind = "list" THEN resp.data ELSE <<>>
               d1 == DataOf(runs.log[1].resp)
               d2 == DataOf(runs.log[2].resp)
               Exprs(d) == {d[j].expr : j \in 1..Len(d)}
               ResultIn(d, k) == d[SetMax({j \in 1..Len(d) : d[j].expr = k})].result
               Shown(d) == {j \in 1..Len(d) : d[j].assign # "false"}
           IN  /\ Exprs(d1) \cup Exprs(d2) \subseteq DOMAIN dictOfVars
               /\ \A k \in Exprs(d2) : dictOfVars[k] = ResultIn(d2, k)
               /\ \A k \in Exprs(d1) \ Exprs(d2) : dictOfVars[k] = ResultIn(d1, k)
               /\ Len(latexExpressions) = Cardinality(Shown(d1)) + Cardinality(Shown(d2))
               /\ \A j \in Shown(d1) : \E m \in 1..Len(latexExpressions) :
                     latexExpressions[m].text = LatexOf(d1[j])
               /\ \A j \in Shown(d2) : \E m \in 1..Len(latexExpressions) :
                     latexExpressions[m].text = LatexOf(d2[j])
\* the call made second settled first, with x = 1, then the call made first
\* settled with x = 2 and assign false: x is bound to 2 and the label of the
\* first response is still shown
C30_Witness ==
    /\ Len(runs.log) = 2 /\ runs.log[1].inflight = 2 /\ runs.log[1].pos = 2
    /\ ~runs.log[1].stale /\ ~runs.log[2].stale
    /\ runs.log[1].resp = [kind |-> "list", data |-> <<[expr |-> "x", result |-> "1", assign |-> "true"]>>]
    /\ runs.log[2].resp = [kind |-> "list", data |-> <<[expr |-> "x", result |-> "2", assign |-> "false"]>>]
    /\ dictOfVars["x"] = "2" /\ Len(latexExpressions) = 1

\* C31: the k-th result label has id k in every reachable state, so the ids
\* are pairwise distinct, across repeated and overlapping runs, label drags
\* and resets; and a step that changes the labels without adding or removing
\* one and without settling a call (a label drag) changes the position of
\* exactly one label and nothing else of any label
C31_LabelIdsArePositions ==
    /\ [](\A k \in 1..Len(latexExpressions) : latexExpressions[k].id = k)
    /\ [][(/\ latexExpressions' # latexExpressions
           /\ Len(latexExpressions') = Len(latexExpressions)
           /\ calls' = calls)
          => \E k \in 1..Len(latexExpressions) :
                /\ latexExpressions'[k] = [latexExpressions[k] EXCEPT !.position = latexExpressions'[k].position]
                /\ \A j \in 1..Len(latexExpressions) : j # k => latexExpressions'[j] = latexExpressions[j]]_vars

\* two labels are shown while a call is still in flight, the second one was
\* dragged to the origin and the first one is where the run placed it
C31_Witness ==
    /\ Len(latexExpressions) = 2
    /\ calls # <<>>
    /\ latexExpressions[2].id = 2
    /\ latexExpressions[2].position = [x |-> 0, y |-> 0]
    /\ latexExpressions[1].position = Center2(raster)

\* C32: the Square tool is never the active tool: in every reachable state the
\* active tool is one of Draw, Erase, Text, Rectangle, Circle and Triangle,
\* and a step that makes Draw the active tool starts from Erase (the eraser
\* toggle), so no pointer gesture runs with the Square tool
C32_SquareNeverActive ==
    /\ [](currentTool \in Tool \ {"square"})
    /\ [][(currentTool' = "draw" /\ currentTool # "draw") => currentTool = "erase"]_vars

\* the toolbar was used and a shape gesture was completed: Triangle is the
\* active tool and the last gesture drew a shape
C32_Witness ==
    /\ currentTool = "triangle"
    /\ lastOp.kind = "shape"
====
